---- MODULE Spec2Model ----
(***************************************************************************)
(* State-machine model of the GAME SDK agent core:                         *)
(*   src/src/game_sdk/game/agent.py  (Session, WorkerConfig, Agent)        *)
(*   src/src/game_sdk/game/utils.py  (post, create_agent, create_workers)  *)
(*   src/src/game_sdk/game/exceptions.py (the failure taxonomy)            *)
(* Python values are modelled as tagged records so that a mapping, a       *)
(* string and None can be told apart (isinstance) and compared.            *)
(***************************************************************************)
EXTENDS Integers, Sequences, FiniteSets, TLC

VARIABLES
    _api_key,           \* Agent._api_key
    agent_id,           \* Agent.agent_id; Unset until __init__ has succeeded
    workers,            \* Agent.workers: insertion-ordered dict, as a sequence of WorkerConfig
    current_worker_id,  \* Agent.current_worker_id (None or an id)
    map_id,             \* Agent._map_id; Unset until compile() assigned it
    worker_states,      \* Agent.worker_states; unassigned until compile() finished
    agent_state,        \* Agent.agent_state
    session,            \* Agent._session: [id, function_result]
    running,            \* TRUE while the caller is inside run()'s loop
    last                \* the last call: operation, failure raised, HTTP requests issued

vars ==
    <<_api_key, agent_id, workers, current_worker_id, map_id, worker_states, agent_state, session,
      running, last>>

----------------------------------------------------------------------------
(* Bounds of the model *)

\* number of session identifiers uuid4() can hand out in one behaviour
MaxSessions == 2

----------------------------------------------------------------------------
(* Python / JSON values *)

EmptyItems == [k \in {} |-> ""]

Dict(f) == [kind |-> "dict", items |-> f]
Str(s) == [kind |-> "str", items |-> EmptyItems, text |-> s]
None == [kind |-> "none", items |-> EmptyItems]
JList == [kind |-> "list", items |-> EmptyItems]
PyInt(n) == [kind |-> "int", items |-> EmptyItems, n |-> n]

\* an attribute that has not been assigned (reading it is an AttributeError)
Unset == "<unset>"

isinstance_dict(v) == v.kind = "dict"

\* Python truthiness of a value ("if not x")
Truthy(v) ==
    CASE v.kind = "none" -> FALSE
      [] v.kind = "str" -> v.text # ""
      [] v.kind = "dict" -> DOMAIN v.items # {}
      [] OTHER -> TRUE

\* dict.get(key, default) on a mapping
Get(d, key, default) == IF key \in DOMAIN d.items THEN d.items[key] ELSE default

\* {**lower, **upper}: the keys of upper win
Merge(lower, upper) == Dict(upper.items @@ lower.items)

----------------------------------------------------------------------------
(* Outcome of a call: a returned value or a raised failure *)

Return(v) == [raised |-> "none", msg |-> "", status_code |-> None, value |-> v]
Raise(kind, message) == [raised |-> kind, msg |-> message, status_code |-> None, value |-> None]
RaiseStatus(kind, message, code) ==
    [raised |-> kind, msg |-> message, status_code |-> code, value |-> None]

\* exceptions.py: AuthenticationError is an APIError; all three are GameSDKError
IsAPIError(kind) == kind \in {"APIError", "AuthenticationError"}
IsGameSDKError(kind) == kind \in {"ValidationError", "APIError", "AuthenticationError", "StateError"}

----------------------------------------------------------------------------
(* Transport layer: utils.post *)

\* One HTTP exchange as requests.post sees it: a transport failure, or a
\* status and a body.  body.text is "" (empty), "json" (parses to body.json)
\* or "not json" (response.json() raises JSONDecodeError).
Exchange(fail, status, text, json) == [fail |-> fail, status |-> status, text |-> text, json |-> json]
Answer(status, json) == Exchange("none", status, "json", json)
AnswerData(status, data) == Answer(status, Dict("data" :> data))

\* requests.post raised: kind is the class of the requests exception
\* (ConnectTimeout is both a ConnectionError and a Timeout), detail is str(e)
Failure(kind, detail) ==
    [fail |-> kind, status |-> 0, text |-> "", json |-> None, detail |-> detail]

\* an answer whose non-empty body is no JSON.  response.json() then raises
\* requests.exceptions.JSONDecodeError, which derives from the JSONDecodeError
\* of the JSON library requests runs on: "json" (the standard library) or
\* "simplejson" (when that package is installed)
NotJson(status, decoder) ==
    [fail |-> "none", status |-> status, text |-> "not json", json |-> None,
     decoder |-> decoder]

\* str(e) of the JSONDecodeError
JSONDecodeErrorText == "Expecting value: line 1 column 1 (char 0)"

\* response.json().get("error", {}).get("message", "Invalid request")
ErrorMessage(json) ==
    IF ~isinstance_dict(json) THEN Raise("AttributeError", "get")
    ELSE LET err == Get(json, "error", Dict(EmptyItems))
         IN  IF ~isinstance_dict(err) THEN Raise("AttributeError", "get")
             ELSE Return(Get(err, "message", Str("Invalid request")))

\* utils.py line 80: the failure a 400 answer is turned into.  A body that is
\* no JSON raises requests' JSONDecodeError here, outside the inner try, and
\* the last except clause of post (lines 97-98) wraps it
bad_request(x) ==
    IF x.text # "json" THEN Raise("APIError", "Request failed: " \o JSONDecodeErrorText)
    ELSE LET m == ErrorMessage(x.json)
         IN  IF m.raised # "none" THEN m ELSE Raise("ValidationError", m.value.text)

\* a classification that forgets to tag the failure with the status
status_error_untagged(x) ==
    IF x.status = 401 THEN Raise("AuthenticationError", "Invalid API key")
    ELSE IF x.status = 400 THEN bad_request(x)
    ELSE IF x.status = 429 THEN Raise("APIError", "Rate limit exceeded")
    ELSE IF x.status >= 500 THEN Raise("APIError", "Server error")
    ELSE Return(None)

\* utils.py lines 77-84: the failure the status is classified as, if any
status_error(x) ==
    IF x.status = 401 THEN Raise("AuthenticationError", "Invalid API key")
    ELSE IF x.status = 400 THEN bad_request(x)
    ELSE IF x.status = 429 THEN RaiseStatus("APIError", "Rate limit exceeded", PyInt(429))
    ELSE IF x.status >= 500 THEN RaiseStatus("APIError", "Server error", PyInt(x.status))
    ELSE Return(None)

\* a reading that hands back the whole body instead of its data key
read_data_whole_body(x) ==
    IF x.text = "" THEN Return(Dict(EmptyItems))
    ELSE IF x.text # "json"
        THEN Raise("APIError", "Invalid JSON response")
    ELSE Return(x.json)

\* utils.py lines 86-91: the payload of an answer whose status raised nothing.
\* "except json.JSONDecodeError" names the standard library's class: it
\* catches requests' JSONDecodeError only when requests runs on the standard
\* library; on simplejson the error reaches the last except clause of post
read_data(x) ==
    IF x.text = "" THEN Return(Dict(EmptyItems))
    ELSE IF x.text # "json"
        THEN IF x.decoder = "json" THEN Raise("APIError", "Invalid JSON response")
             ELSE Raise("APIError", "Request failed: " \o JSONDecodeErrorText)
    ELSE IF ~isinstance_dict(x.json) THEN Raise("AttributeError", "get")
    ELSE Return(Get(x.json, "data", Dict(EmptyItems)))

\* the body of post() after the request was answered (utils.py lines 77-91)
post_answered(x) ==
    IF status_error(x).raised # "none" THEN status_error(x) ELSE read_data(x)

\* a post that lets a Timeout of requests through
post_timeout_escapes(x) ==
    CASE x.fail \in {"ConnectionError", "ConnectTimeout"} ->
            Raise("APIError", "Connection failed: " \o x.detail)
      [] x.fail = "Timeout" -> Raise("Timeout", x.detail)
      [] x.fail = "RequestException" -> Raise("APIError", "Request failed: " \o x.detail)
      [] OTHER -> post_answered(x)

\* utils.post: the except clauses (lines 93-98) wrap the requests-library
\* failures, the first clause that matches the class of the exception winning
post(x) ==
    CASE x.fail \in {"ConnectionError", "ConnectTimeout"} ->
            Raise("APIError", "Connection failed: " \o x.detail)
      [] x.fail = "Timeout" -> Raise("APIError", "Connection timeout: " \o x.detail)
      [] x.fail = "RequestException" -> Raise("APIError", "Request failed: " \o x.detail)
      [] OTHER -> post_answered(x)

----------------------------------------------------------------------------
(* Registration operations: utils.create_agent, utils.create_workers *)

\* an HTTP request as post issues it (utils.py lines 69-75): the endpoint,
\* the JSON payload and the Authorization header
Request(api_key, endpoint, data) ==
    [endpoint |-> endpoint, data |-> data,
     headers |-> [Authorization |-> "Bearer " \o api_key]]

\* str.strip() on a name given as a sequence of characters
RECURSIVE LStrip(_)
LStrip(s) == IF s # <<>> /\ Head(s) = " " THEN LStrip(Tail(s)) ELSE s
RECURSIVE RStrip(_)
RStrip(s) == IF s # <<>> /\ s[Len(s)] = " " THEN RStrip(SubSeq(s, 1, Len(s) - 1)) ELSE s
strip(s) == RStrip(LStrip(s))

\* a name argument: a string (sequence of characters) or a value that is no string
NameStr(chars) == [isstr |-> TRUE, chars |-> chars]
NameNotStr == [isstr |-> FALSE, chars |-> <<>>]

\* the id extraction shared by create_agent and create_workers:
\* resp.get("id"); if not id: raise APIError(... missing id in response)
ExtractId(resp, what) ==
    IF ~isinstance_dict(resp) THEN Raise("AttributeError", "get")
    ELSE LET id == Get(resp, "id", None)
         IN  IF ~Truthy(id) THEN Raise("APIError", what) ELSE Return(id)

\* a create_agent that tests "not name" instead of "not name.strip()"
create_agent_no_strip(api_key, name, description, goal, x) ==
    IF ~name.isstr \/ name.chars = <<>>
    THEN [out |-> Raise("ValidationError", "Name cannot be empty"), http |-> <<>>]
    ELSE LET req == Request(api_key, "/v2/agents",
                            [name |-> name, description |-> description, goal |-> goal])
             r == post(x)
         IN  [out |-> IF r.raised # "none" THEN r
                      ELSE ExtractId(r.value, "Failed to create agent: missing id in response"),
              http |-> <<req>>]

\* a create_agent that posts first and validates the name afterwards
create_agent_validates_late(api_key, name, description, goal, x) ==
    LET req == Request(api_key, "/v2/agents",
                       [name |-> name, description |-> description, goal |-> goal])
        r == post(x)
    IN  IF r.raised # "none" THEN [out |-> r, http |-> <<req>>]
        ELSE IF ~name.isstr \/ strip(name.chars) = <<>>
        THEN [out |-> Raise("ValidationError", "Name cannot be empty"), http |-> <<req>>]
        ELSE [out |-> ExtractId(r.value, "Failed to create agent: missing id in response"),
              http |-> <<req>>]

\* create_agent: [out |-> outcome, http |-> requests issued]
create_agent(api_key, name, description, goal, x) ==
    IF ~name.isstr \/ strip(name.chars) = <<>>
    THEN [out |-> Raise("ValidationError", "Name cannot be empty"), http |-> <<>>]
    ELSE LET req == Request(api_key, "/v2/agents",
                            [name |-> name, description |-> description, goal |-> goal])
             r == post(x)
         IN  [out |-> IF r.raised # "none" THEN r
                      ELSE ExtractId(r.value, "Failed to create agent: missing id in response"),
              http |-> <<req>>]

\* what iterating worker.action_space yields in create_workers: the dict keys
\* (function names, plain strings), on which get_function_def() does not exist
ActionSpaceIterRaises(worker) == worker.action_space # {}

\* create_workers: [out |-> outcome, http |-> requests issued]
create_workers(api_key, workers_list, x) ==
    IF \E i \in 1..Len(workers_list) : ActionSpaceIterRaises(workers_list[i])
    THEN [out |-> Raise("AttributeError", "get_function_def"), http |-> <<>>]
    ELSE LET worker_configs ==
                 [i \in 1..Len(workers_list) |->
                     [id |-> workers_list[i].id,
                      description |-> workers_list[i].worker_description,
                      instruction |-> workers_list[i].instruction,
                      action_space |-> <<>>]]
             req == Request(api_key, "/v2/workers", [workers |-> worker_configs])
             r == post(x)
         IN  [out |-> IF r.raised # "none" THEN r
                      ELSE ExtractId(r.value, "Failed to create worker: missing id in response"),
              http |-> <<req>>]

----------------------------------------------------------------------------
(* Worker configuration: agent.WorkerConfig *)

\* the worker ids callers use, the instruction each is configured with, and
\* the function names of their action spaces
WorkerIds == {"worker_a", "worker_b"}
InstructionOf(id) == IF id = "worker_a" THEN "instr_a" ELSE "instr_b"
FnNames == {"fn_1"}

\* WorkerConfig.__init__: the list of Functions becomes a dict keyed by fn_name
\* (here the set of its keys; a Function is identified by its name)
WorkerConfig(id, instruction, action_space) ==
    [id |-> id, worker_description |-> "desc", instruction |-> instruction,
     action_space |-> action_space]

WorkerConfigs ==
    {WorkerConfig(id, InstructionOf(id), fns) : id \in WorkerIds, fns \in SUBSET FnNames}

\* what a raw (user-supplied) worker state callback can do on one invocation
RawStateOutcomes ==
    {Return(Dict(EmptyItems)),
     Return(Dict("instructions" :> Str("raw"))),
     Return(Str("Not a dictionary")),
     Raise("CallbackError", "worker state callback")}

\* a wrapper that writes the instruction over the raw mapping:
\*   {**get_state_fn(fr, st), "instructions": self.instruction}
get_state_fn_instruction_on_top(worker, raw) ==
    IF raw.raised # "none" THEN raw
    ELSE IF ~isinstance_dict(raw.value) THEN Raise("TypeError", "not a mapping")
    ELSE Return(Merge(raw.value, Dict("instructions" :> Str(worker.instruction))))

\* the wrapped callback of WorkerConfig.__init__:
\*   lambda fr, st: {"instructions": self.instruction, **get_state_fn(fr, st)}
get_state_fn(worker, raw) ==
    IF raw.raised # "none" THEN raw
    ELSE IF ~isinstance_dict(raw.value) THEN Raise("TypeError", "not a mapping")
    ELSE Return(Merge(Dict("instructions" :> Str(worker.instruction)), raw.value))

----------------------------------------------------------------------------
(* The insertion-ordered dict Agent.workers, as a sequence of WorkerConfig *)

Keys(ws) == {ws[i].id : i \in 1..Len(ws)}
IndexOf(ws, id) == CHOOSE i \in 1..Len(ws) : ws[i].id = id
Lookup(ws, id) == ws[IndexOf(ws, id)]

\* ws[cfg.id] = cfg: a present key keeps its position, a new key goes last
SetItem(ws, cfg) ==
    IF cfg.id \in Keys(ws) THEN [ws EXCEPT ![IndexOf(ws, cfg.id)] = cfg]
    ELSE Append(ws, cfg)

\* {w.id: w for w in workers}
RECURSIVE DictFromList(_, _)
DictFromList(acc, list) ==
    IF list = <<>> THEN acc ELSE DictFromList(SetItem(acc, Head(list)), Tail(list))

\* the lists of WorkerConfig a caller can pass to Agent(workers=...)
WorkerLists == UNION {[1..n -> WorkerConfigs] : n \in 0..Cardinality(WorkerIds)}

----------------------------------------------------------------------------
(* What the environment can do *)

\* agent-level state callback, one invocation
AgentStateOutcomes ==
    {Return(Dict("status" :> Str("ready"))),
     Return(Dict("status" :> Str("busy"))),
     Return(Str("Not a dictionary")),
     Raise("CallbackError", "agent state callback")}

\* answers of the service to a registration request
RegistrationExchanges ==
    {AnswerData(200, Dict("id" :> Str("id_1"))),
     AnswerData(200, Dict(EmptyItems)),
     Answer(200, Dict(EmptyItems)),
     AnswerData(200, None),
     NotJson(200, "json"),
     NotJson(200, "simplejson"),
     Exchange("none", 204, "", None),
     Answer(401, Dict("error" :> Dict("message" :> Str("Invalid API key")))),
     Answer(400, Dict("error" :> Dict("message" :> Str("bad request")))),
     Answer(429, Dict("error" :> Str("Rate limit exceeded"))),
     Answer(500, Dict("error" :> Str("Internal server error"))),
     Failure("ConnectionError", "Connection failed"),
     Failure("Timeout", "Connection timeout")}

\* answers of the service to compile()'s registration request
ServiceExchanges ==
    {AnswerData(200, Dict("id" :> Str("id_1"))),
     AnswerData(200, Dict(EmptyItems)),
     AnswerData(200, None),
     Answer(500, Dict("error" :> Str("Internal server error")))}

Names == {NameStr(<<"T">>), NameStr(<<"T", " ">>), NameStr(<<>>), NameStr(<<" ">>), NameNotStr}

\* what the token endpoint (/api/accesses/tokens) would answer if it were asked
TokenExchanges ==
    {AnswerData(200, Dict("accessToken" :> Str("test_token"))),
     Answer(401, Dict("error" :> Dict("message" :> Str("Invalid API key"))))}

\* the statuses, bodies and transport failures a call of post can meet
Statuses == {200, 204, 400, 401, 403, 404, 429, 500, 503}
JsonBodies ==
    {Dict("data" :> Dict("id" :> Str("id_1"))),
     Dict("data" :> Str("text")),
     Dict(EmptyItems),
     Dict("error" :> Dict("message" :> Str("bad request"))),
     Dict("error" :> Dict(EmptyItems)),
     Dict("error" :> Str("Rate limit exceeded")),
     JList}
Failures ==
    {Failure("ConnectionError", "Connection failed"),
     Failure("ConnectionError", "Remote end closed connection without response"),
     Failure("Timeout", "Connection timeout"),
     Failure("Timeout", "Read timed out."),
     Failure("ConnectTimeout", "Max retries exceeded (Caused by ConnectTimeoutError)"),
     Failure("RequestException", "Exceeded 30 redirects.")}
\* an answer with status 204 has no body
TransportExchanges ==
    {Answer(status, json) : status \in Statuses \ {204}, json \in JsonBodies}
    \cup {NotJson(status, decoder) : status \in Statuses \ {204},
                                     decoder \in {"json", "simplejson"}}
    \cup {Exchange("none", status, "", None) : status \in Statuses}
    \cup Failures
ApiKeys == {"test_api_key", ""}

----------------------------------------------------------------------------
(* Agent *)

UnassignedStates == [assigned |-> FALSE, d |-> EmptyItems]
AssignedStates(d) == [assigned |-> TRUE, d |-> d]

NoneId == "<None>"

\* Session(): a fresh uuid4 (the next unused number) and no function result
Session(n) == [id |-> n, function_result |-> None]

\* the record of one call: the operation, its inputs, what it raised ("none"
\* when it returned) and the HTTP requests it issued, in order
Call(op, args, out, http) ==
    [op |-> op, args |-> args, raised |-> out.raised, msg |-> out.msg, http |-> http,
     status_code |-> out.status_code, value |-> out.value]

Init ==
    /\ _api_key = Unset
    /\ agent_id = Unset
    /\ workers = <<>>
    /\ current_worker_id = NoneId
    /\ map_id = Unset
    /\ worker_states = UnassignedStates
    /\ agent_state = None
    /\ session = Session(0)
    /\ running = FALSE
    /\ last = Call("none", None, Return(None), <<>>)

Constructed == agent_id # Unset

\* an __init__ that creates the agent record before it validates the state
agent_init_registers_first(api_key, name, st, x) ==
    IF api_key = "" THEN [out |-> Raise("ValueError", "API key not set"), http |-> <<>>]
    ELSE IF st.raised # "none" THEN [out |-> st, http |-> <<>>]
    ELSE LET r == create_agent(api_key, name, "description", "goal", x)
         IN  IF r.out.raised = "none" /\ ~isinstance_dict(st.value)
             THEN [out |-> Raise("ValidationError", "State function must return a dictionary"),
                   http |-> r.http]
             ELSE r

\* Agent.__init__ up to and including create_agent (agent.py lines 165-202):
\* st is what get_agent_state_fn(None, None) does, x the service's answer
agent_init(api_key, name, st, x) ==
    IF api_key = "" THEN [out |-> Raise("ValueError", "API key not set"), http |-> <<>>]
    ELSE IF st.raised # "none" THEN [out |-> st, http |-> <<>>]
    ELSE IF ~isinstance_dict(st.value)
        THEN [out |-> Raise("ValidationError", "State function must return a dictionary"),
              http |-> <<>>]
    ELSE create_agent(api_key, name, "description", "goal", x)

\* Agent.__init__; a raise leaves no Agent object behind
AgentInit ==
    /\ ~Constructed
    /\ \E api_key \in ApiKeys, name \in Names, st \in AgentStateOutcomes,
          x \in RegistrationExchanges, token \in TokenExchanges :
        LET r == agent_init(api_key, name, st, x)
        IN  /\ last' = Call("__init__", [api_key |-> api_key, name |-> name, st |-> st,
                                         x |-> x, token |-> token],
                            r.out, r.http)
            /\ UNCHANGED running
            /\ IF r.out.raised # "none"
               THEN UNCHANGED <<_api_key, agent_id, workers, current_worker_id, map_id,
                                worker_states, agent_state, session>>
               ELSE /\ _api_key' = api_key
                    /\ session' = Session(1)
                    /\ \E list \in WorkerLists : workers' = DictFromList(<<>>, list)
                    /\ current_worker_id' = NoneId
                    /\ agent_state' = st.value
                    /\ agent_id' = r.out.value.text
                    /\ UNCHANGED <<map_id, worker_states>>

\* utils.post and utils.create_agent are module-level functions that read and
\* write no Agent; the model calls them on their own before an Agent exists
PostCall ==
    /\ ~Constructed
    /\ \E api_key \in ApiKeys \ {""}, x \in TransportExchanges :
        last' = Call("post", [api_key |-> api_key, x |-> x], post(x),
                     <<Request(api_key, "/v2/agents", Dict(EmptyItems))>>)
    /\ UNCHANGED <<_api_key, agent_id, workers, current_worker_id, map_id, worker_states,
                   agent_state, session, running>>

CreateAgentCall ==
    /\ ~Constructed
    /\ \E api_key \in ApiKeys \ {""}, name \in Names, x \in RegistrationExchanges :
        LET r == create_agent(api_key, name, "description", "goal", x)
        IN  last' = Call("create_agent", [api_key |-> api_key, name |-> name, x |-> x],
                         r.out, r.http)
    /\ UNCHANGED <<_api_key, agent_id, workers, current_worker_id, map_id, worker_states,
                   agent_state, session, running>>

\* a compile() that registers first and tests for emptiness afterwards
register_workers_late_check(ws, x) ==
    LET r == create_workers(_api_key, ws, x)
    IN  IF ws = <<>>
        THEN [out |-> Raise("ValueError", "No workers added to the agent"), http |-> r.http]
        ELSE r

\* agent.py lines 218-228: the emptiness test, then create_workers
register_workers(ws, x) ==
    IF ws = <<>>
    THEN [out |-> Raise("ValueError", "No workers added to the agent"), http |-> <<>>]
    ELSE create_workers(_api_key, ws, x)

\* agent.py lines 234-236: one worker's initial snapshot, or what raises
initial_state(worker, raw) ==
    LET s == get_state_fn(worker, raw)
    IN  IF s.raised # "none" THEN s
        ELSE IF ~isinstance_dict(s.value)
        THEN Raise("ValidationError",
                   "Worker " \o worker.id \o " state function must return a dictionary")
        ELSE s

\* the loop of compile() over workers_list (agent.py lines 232-237): the first
\* worker whose snapshot raises ends it (0 if none does)
FirstRaising(ws, raws) ==
    LET bad == {i \in 1..Len(ws) : initial_state(ws[i], raws[ws[i].id]).raised # "none"}
    IN  IF bad = {} THEN 0 ELSE CHOOSE i \in bad : \A j \in bad : i <= j

\* snapshots for the first worker only
InitialStates_first_only(ws, raws) ==
    [id \in {ws[1].id} |-> initial_state(Lookup(ws, id), raws[id]).value]

\* the mapping compile() assigns (agent.py lines 232-239): one snapshot per worker
InitialStates(ws, raws) ==
    [id \in Keys(ws) |-> initial_state(Lookup(ws, id), raws[id]).value]

\* a compile() that invokes the state callbacks before it registers the workers
Compile_callbacks_first ==
    /\ Constructed
    /\ ~running
    /\ UNCHANGED running
    /\ \E x \in ServiceExchanges :
        LET r == register_workers(workers, x)
        IN  IF workers = <<>> THEN
                /\ last' = Call("compile", [x |-> x, raws |-> None], r.out, r.http)
                /\ UNCHANGED <<_api_key, agent_id, workers, current_worker_id, map_id,
                               worker_states, agent_state, session>>
            ELSE \E raws \in [Keys(workers) -> RawStateOutcomes] :
                LET bad == FirstRaising(workers, raws)
                IN  /\ IF bad # 0 THEN
                            /\ last' = Call("compile", [x |-> x, raws |-> raws],
                                            initial_state(workers[bad], raws[workers[bad].id]),
                                            <<>>)
                            /\ UNCHANGED <<worker_states, map_id, current_worker_id>>
                       ELSE IF r.out.raised # "none" THEN
                            /\ last' = Call("compile", [x |-> x, raws |-> raws], r.out, r.http)
                            /\ UNCHANGED <<worker_states, map_id, current_worker_id>>
                       ELSE /\ last' = Call("compile", [x |-> x, raws |-> raws],
                                            Return(r.out.value), r.http)
                            /\ map_id' = r.out.value.text
                            /\ current_worker_id' = workers[1].id
                            /\ worker_states' = AssignedStates(InitialStates(workers, raws))
                    /\ UNCHANGED <<_api_key, agent_id, workers, agent_state, session>>

\* Agent.compile
Compile ==
    /\ Constructed
    /\ ~running
    /\ UNCHANGED running
    /\ \E x \in ServiceExchanges :
        LET r == register_workers(workers, x)
        IN  IF r.out.raised # "none" THEN
                /\ last' = Call("compile", [x |-> x, raws |-> None], r.out, r.http)
                /\ UNCHANGED <<_api_key, agent_id, workers, current_worker_id, map_id,
                               worker_states, agent_state, session>>
            ELSE \E raws \in [Keys(workers) -> RawStateOutcomes] :
                LET bad == FirstRaising(workers, raws)
                IN  /\ map_id' = r.out.value.text
                    /\ current_worker_id' = workers[1].id
                    /\ IF bad # 0 THEN
                            /\ last' = Call("compile", [x |-> x, raws |-> raws],
                                            initial_state(workers[bad], raws[workers[bad].id]),
                                            r.http)
                            /\ UNCHANGED worker_states
                       ELSE /\ last' = Call("compile", [x |-> x, raws |-> raws],
                                            Return(r.out.value), r.http)
                            /\ worker_states' = AssignedStates(InitialStates(workers, raws))
                    /\ UNCHANGED <<_api_key, agent_id, workers, agent_state, session>>

\* a reset that clears the pending result and keeps the identifier
Reset_keeps_id ==
    /\ Constructed
    /\ ~running
    /\ session.id < MaxSessions
    /\ session' = [session EXCEPT !.function_result = None]
    /\ last' = Call("reset", None, Return(None), <<>>)
    /\ UNCHANGED <<_api_key, agent_id, workers, current_worker_id, map_id, worker_states, agent_state,
                   running>>

\* Agent.reset -> Session.reset
Reset ==
    /\ Constructed
    /\ ~running
    /\ session.id < MaxSessions
    /\ session' = Session(session.id + 1)
    /\ last' = Call("reset", None, Return(None), <<>>)
    /\ UNCHANGED <<_api_key, agent_id, workers, current_worker_id, map_id, worker_states, agent_state,
                   running>>

\* an add_worker that also computes the snapshot of the worker it adds
AddWorker_initialises_snapshot ==
    /\ Constructed
    /\ ~running
    /\ \E cfg \in WorkerConfigs :
        /\ workers' = SetItem(workers, cfg)
        /\ worker_states' =
              IF worker_states.assigned
              THEN AssignedStates([id \in DOMAIN worker_states.d \cup {cfg.id} |->
                       IF id = cfg.id THEN Dict("instructions" :> Str(cfg.instruction))
                       ELSE worker_states.d[id]])
              ELSE worker_states
        /\ last' = Call("add_worker", None, Return(None), <<>>)
    /\ UNCHANGED <<_api_key, agent_id, current_worker_id, map_id, agent_state, session, running>>

\* Agent.add_worker
AddWorker ==
    /\ Constructed
    /\ ~running
    /\ \E cfg \in WorkerConfigs :
        /\ workers' = SetItem(workers, cfg)
        /\ last' = Call("add_worker", None, Return(None), <<>>)
    /\ UNCHANGED <<_api_key, agent_id, current_worker_id, map_id, worker_states, agent_state, session,
                   running>>

----------------------------------------------------------------------------
(* The decision round trip and the step state machine *)

\* FunctionResult (custom_types): the record Function.execute produces
FunctionResult(action_id, action_status, feedback_message, info) ==
    [kind |-> "FunctionResult", items |-> EmptyItems, action_id |-> action_id,
     action_status |-> action_status, feedback_message |-> feedback_message, info |-> info]

\* a dump that forgets the exclusion: model_dump()
model_dump_all(fr) ==
    [action_id |-> fr.action_id, action_status |-> fr.action_status,
     feedback_message |-> fr.feedback_message, info |-> fr.info]

\* function_result.model_dump(exclude={'info'})
model_dump_exclude_info(fr) ==
    [action_id |-> fr.action_id, action_status |-> fr.action_status,
     feedback_message |-> fr.feedback_message]

\* the dummy result of _get_action (agent.py lines 304-310)
DummyResult == FunctionResult("", "DONE", "", Dict(EmptyItems))

\* a payload entry that is null when there is no pending result
current_action_null(function_result) ==
    IF function_result = None THEN None ELSE model_dump_exclude_info(function_result)

\* the "current_action" entry of the payload (agent.py lines 303-310, 323-326)
current_action(function_result) ==
    model_dump_exclude_info(IF function_result = None THEN DummyResult ELSE function_result)

\* a payload that advertises the functions of the first-inserted worker
Payload_first_worker ==
    [location |-> current_worker_id,
     map_id |-> map_id,
     environment |-> worker_states.d[current_worker_id],
     functions |-> workers[1].action_space,
     events |-> Dict(EmptyItems),
     agent_state |-> agent_state,
     current_action |-> current_action(session.function_result),
     version |-> "v2"]

\* the payload of _get_action (agent.py lines 313-328), built in the current state
Payload ==
    [location |-> current_worker_id,
     map_id |-> map_id,
     environment |-> worker_states.d[current_worker_id],
     functions |-> Lookup(workers, current_worker_id).action_space,
     events |-> Dict(EmptyItems),
     agent_state |-> agent_state,
     current_action |-> current_action(session.function_result),
     version |-> "v2"]

\* what evaluating the payload raises before any request is sent, "none" if nothing
PayloadRaises ==
    IF map_id = Unset THEN Raise("AttributeError", "_map_id")
    ELSE IF ~worker_states.assigned THEN Raise("AttributeError", "worker_states")
    ELSE IF current_worker_id \notin DOMAIN worker_states.d THEN Raise("KeyError", "worker_states")
    ELSE IF current_worker_id \notin Keys(workers) THEN Raise("KeyError", "workers")
    ELSE Return(None)

\* ActionType (custom_types): the four types step() handles
HandledActionTypes == {"call_function", "continue_function", "wait", "go_to"}
\* a member a longer ActionType enum would have, which step() does not handle
ExtraActionTypes == {"extra_member"}

\* ActionResponse.model_validate(response)
model_validate(response) ==
    IF ~isinstance_dict(response) THEN Raise("PydanticValidationError", "ActionResponse")
    ELSE IF {"action_type", "agent_state"} \ DOMAIN response.items # {}
        THEN Raise("PydanticValidationError", "ActionResponse")
    ELSE IF response.items["action_type"].text \notin HandledActionTypes \cup ExtraActionTypes
        THEN Raise("PydanticValidationError", "ActionResponse")
    ELSE Return([action_type |-> response.items["action_type"].text,
                 action_args |-> Get(response, "action_args", None)])

\* a decision response body
ActionData(action_type, action_args) ==
    Dict("action_type" :> Str(action_type) @@ "action_args" :> action_args
         @@ "agent_state" :> Dict(EmptyItems))

GhostId == "worker_ghost"
CallArgs(fn_name) ==
    Dict("fn_name" :> Str(fn_name) @@ "args" :> Dict(EmptyItems) @@ "fn_id" :> Str("act_1"))
GoToArgs(location_id) == Dict("location_id" :> Str(location_id))

\* absent, empty and malformed action-args
BadActionArgs == {None, Dict(EmptyItems)}
FunctionActionArgs ==
    BadActionArgs \cup {Dict("fn_name" :> Str("fn_1"))}
    \cup {CallArgs(f) : f \in FnNames \cup {"fn_missing"}}
LocationActionArgs == BadActionArgs \cup {GoToArgs(w) : w \in WorkerIds \cup {GhostId}}

\* what the decision endpoint can answer
DecisionExchanges ==
    {AnswerData(200, ActionData(t, a)) : t \in {"call_function", "continue_function"},
                                         a \in FunctionActionArgs}
    \cup {AnswerData(200, ActionData("go_to", a)) : a \in LocationActionArgs}
    \cup {AnswerData(200, ActionData(t, None)) : t \in {"wait", "extra_member", "not_a_member"}}
    \cup {Exchange("none", 204, "", None),
          Answer(400, Dict("error" :> Dict("message" :> Str("bad request")))),
          Answer(401, Dict(EmptyItems)),
          Answer(500, Dict("error" :> Str("Internal server error"))),
          Failure("ConnectionError", "Connection failed")}

\* what the user's executable can hand back through Function.execute
ExecOutcomes ==
    {[status |-> "DONE", feedback |-> "ok", info |-> Dict("k" :> Str("v"))],
     [status |-> "ERROR", feedback |-> "failed", info |-> Dict(EmptyItems)]}

\* Function.execute(**action_args)
execute(action_args, e) ==
    FunctionResult(Get(action_args, "fn_id", None).text, e.status, e.feedback, e.info)

\* one invocation of a user callback: what it did, and the arguments
\* (function_result, current_state) it was invoked with
Invoked(outcome, function_result, current_state) ==
    [raised |-> outcome.raised, msg |-> outcome.msg, status_code |-> outcome.status_code,
     value |-> outcome.value, args |-> <<function_result, current_state>>]

\* the record of a step(): its inputs are the decision response as far as it
\* was read (NoResponse when none was received), the invocation of the active
\* worker's raw state callback (raw) and the invocation of the agent state
\* callback (st), each None when the callback was not invoked
NoResponse == [action_type |-> "", action_args |-> None]
StepCall(out, http, response, raw, st) ==
    Call("step", [action_type |-> response.action_type, action_args |-> response.action_args,
                  raw |-> raw, st |-> st], out, http)

\* how a step() ends: it returns, or it raises; a raise inside run()'s loop
\* (agent.py lines 413-414) propagates and ends run()
StepEnds(out, http, response, raw, st) ==
    /\ last' = StepCall(out, http, response, raw, st)
    /\ running' = (running /\ out.raised = "none")

\* agent.py lines 403-405: the agent-level state is recomputed, unvalidated
\* an update that hands the callback the result the step began with
UpdateAgentState_stale_result(http, response, raw) ==
    \E st \in AgentStateOutcomes :
        IF st.raised # "none"
        THEN /\ StepEnds(st, http, response, raw,
                         Invoked(st, session.function_result, agent_state))
             /\ UNCHANGED agent_state
        ELSE /\ StepEnds(Return(None), http, response, raw,
                         Invoked(st, session.function_result, agent_state))
             /\ agent_state' = st.value

\* agent.py lines 403-405: the agent-level state is recomputed, unvalidated,
\* from the pending result as the branch left it and the previous state
UpdateAgentState(http, response, raw) ==
    \E st \in AgentStateOutcomes :
        IF st.raised # "none"
        THEN /\ StepEnds(st, http, response, raw,
                         Invoked(st, session'.function_result, agent_state))
             /\ UNCHANGED agent_state
        ELSE /\ StepEnds(Return(None), http, response, raw,
                         Invoked(st, session'.function_result, agent_state))
             /\ agent_state' = st.value

\* a raising step() that drops the pending result
StepRaises_drops_result(out, http, response) ==
    /\ StepEnds(out, http, response, None, None)
    /\ session' = [session EXCEPT !.function_result = None]
    /\ UNCHANGED <<_api_key, agent_id, workers, current_worker_id, map_id, worker_states,
                   agent_state>>

\* a step() that raises at this point: nothing more is assigned
StepRaises(out, http, response) ==
    /\ StepEnds(out, http, response, None, None)
    /\ UNCHANGED <<_api_key, agent_id, workers, current_worker_id, map_id, worker_states,
                   agent_state, session>>

\* agent.py lines 369-373: the two prints subscript action_args before the
\* "if not action_args" test
CallArgsRaises(action_args) ==
    IF action_args.kind = "none" THEN Raise("TypeError", "NoneType is not subscriptable")
    ELSE IF "fn_name" \notin DOMAIN action_args.items THEN Raise("KeyError", "fn_name")
    ELSE IF "args" \notin DOMAIN action_args.items THEN Raise("KeyError", "args")
    ELSE IF ~Truthy(action_args) THEN Raise("ValueError", "No function information provided by GAME")
    ELSE Return(None)

\* agent.py lines 392-395
GoToArgsRaises(action_args) ==
    IF ~Truthy(action_args) THEN Raise("ValueError", "No location information provided by GAME")
    ELSE IF "location_id" \notin DOMAIN action_args.items THEN Raise("KeyError", "location_id")
    ELSE Return(None)

\* a lookup that answers for names the action space does not hold
action_space_lookup_default(worker, fn_name) == Return(Str(fn_name))

\* workers[current_worker_id].action_space[fn_name] (agent.py lines 375-378)
action_space_lookup(worker, fn_name) ==
    IF fn_name \in worker.action_space THEN Return(Str(fn_name))
    ELSE Raise("KeyError", "action_space")

\* a branch that recomputes the snapshot from the result the step began with
CallFunctionBranch_stale_result(a, http) ==
    LET worker == Lookup(workers, current_worker_id)
        fn_name == a.action_args.items["fn_name"].text
    IN  IF CallArgsRaises(a.action_args).raised # "none"
        THEN StepRaises(CallArgsRaises(a.action_args), http, a)
        ELSE IF action_space_lookup(worker, fn_name).raised # "none"
        THEN StepRaises(action_space_lookup(worker, fn_name), http, a)
        ELSE \E e \in ExecOutcomes, raw \in RawStateOutcomes :
            LET updated_worker_state == get_state_fn(worker, raw)
                invoked == Invoked(raw, session.function_result,
                                   worker_states.d[current_worker_id])
            IN  /\ session' = [session EXCEPT !.function_result = execute(a.action_args, e)]
                /\ UNCHANGED <<_api_key, agent_id, workers, current_worker_id, map_id>>
                /\ IF updated_worker_state.raised # "none"
                   THEN /\ StepEnds(updated_worker_state, http, a, invoked, None)
                        /\ UNCHANGED <<worker_states, agent_state>>
                   ELSE /\ worker_states' =
                              [worker_states EXCEPT !.d[current_worker_id] = updated_worker_state.value]
                        /\ UpdateAgentState(http, a, invoked)

\* agent.py lines 365-386: the function is looked up and executed, its result
\* stored, then the snapshot recomputed from (the new result, the old snapshot)
CallFunctionBranch(a, http) ==
    LET worker == Lookup(workers, current_worker_id)
        fn_name == a.action_args.items["fn_name"].text
    IN  IF CallArgsRaises(a.action_args).raised # "none"
        THEN StepRaises(CallArgsRaises(a.action_args), http, a)
        ELSE IF action_space_lookup(worker, fn_name).raised # "none"
        THEN StepRaises(action_space_lookup(worker, fn_name), http, a)
        ELSE \E e \in ExecOutcomes, raw \in RawStateOutcomes :
            LET updated_worker_state == get_state_fn(worker, raw)
                invoked == Invoked(raw, execute(a.action_args, e),
                                   worker_states.d[current_worker_id])
            IN  /\ session' = [session EXCEPT !.function_result = execute(a.action_args, e)]
                /\ UNCHANGED <<_api_key, agent_id, workers, current_worker_id, map_id>>
                /\ IF updated_worker_state.raised # "none"
                   THEN /\ StepEnds(updated_worker_state, http, a, invoked, None)
                        /\ UNCHANGED <<worker_states, agent_state>>
                   ELSE /\ worker_states' =
                              [worker_states EXCEPT !.d[current_worker_id] = updated_worker_state.value]
                        /\ UpdateAgentState(http, a, invoked)

\* a GO_TO that checks the target against the worker mapping before switching
GoToBranch_validates(a, http) ==
    IF GoToArgsRaises(a.action_args).raised # "none"
    THEN StepRaises(GoToArgsRaises(a.action_args), http, a)
    ELSE IF a.action_args.items["location_id"].text \notin Keys(workers)
    THEN StepRaises(Raise("KeyError", "workers"), http, a)
    ELSE /\ current_worker_id' = a.action_args.items["location_id"].text
         /\ UNCHANGED <<_api_key, agent_id, workers, map_id, worker_states, session>>
         /\ UpdateAgentState(http, a, None)

\* a GO_TO that switches the worker only if the agent state callback returns
GoToBranch_all_or_nothing(a, http) ==
    IF GoToArgsRaises(a.action_args).raised # "none"
    THEN StepRaises(GoToArgsRaises(a.action_args), http, a)
    ELSE \E st \in AgentStateOutcomes :
         /\ UNCHANGED <<_api_key, agent_id, workers, map_id, worker_states, session>>
         /\ IF st.raised # "none"
            THEN /\ StepEnds(st, http, a, None,
                             Invoked(st, session.function_result, agent_state))
                 /\ UNCHANGED <<agent_state, current_worker_id>>
            ELSE /\ StepEnds(Return(None), http, a, None,
                             Invoked(st, session.function_result, agent_state))
                 /\ agent_state' = st.value
                 /\ current_worker_id' = a.action_args.items["location_id"].text

\* a GO_TO that also recomputes the snapshot of the worker it leaves
GoToBranch_touches_snapshot(a, http) ==
    IF GoToArgsRaises(a.action_args).raised # "none"
    THEN StepRaises(GoToArgsRaises(a.action_args), http, a)
    ELSE /\ current_worker_id' = a.action_args.items["location_id"].text
         /\ worker_states' = [worker_states EXCEPT !.d[current_worker_id] = Dict(EmptyItems)]
         /\ UNCHANGED <<_api_key, agent_id, workers, map_id, session>>
         /\ UpdateAgentState(http, a, None)

\* agent.py lines 391-397
GoToBranch(a, http) ==
    IF GoToArgsRaises(a.action_args).raised # "none"
    THEN StepRaises(GoToArgsRaises(a.action_args), http, a)
    ELSE /\ current_worker_id' = a.action_args.items["location_id"].text
         /\ UNCHANGED <<_api_key, agent_id, workers, map_id, worker_states, session>>
         /\ UpdateAgentState(http, a, None)

\* a WAIT that clears the pending result
WaitBranch_clears_result(a, http) ==
    /\ session' = [session EXCEPT !.function_result = None]
    /\ UNCHANGED <<_api_key, agent_id, workers, current_worker_id, map_id, worker_states>>
    /\ UpdateAgentState(http, a, None)

\* agent.py lines 388-389
WaitBranch(a, http) ==
    /\ UNCHANGED <<_api_key, agent_id, workers, current_worker_id, map_id, worker_states, session>>
    /\ UpdateAgentState(http, a, None)

\* an else branch that does not raise and falls through to the state update
UnknownBranch_falls_through(a, http) == WaitBranch(a, http)

\* agent.py lines 399-401
UnknownBranch(a, http) == StepRaises(Raise("ValueError", "Unknown action type"), http, a)

\* a _get_action that sends its request a second time
get_action_requests_resent ==
    <<Request(_api_key, "/v2/agents/" \o agent_id \o "/actions", Payload),
      Request(_api_key, "/v2/agents/" \o agent_id \o "/actions", Payload)>>

\* the requests one _get_action issues (agent.py lines 330-336): one post
get_action_requests ==
    <<Request(_api_key, "/v2/agents/" \o agent_id \o "/actions", Payload)>>

\* Agent.step, with Agent._get_action
Step ==
    /\ Constructed
    /\ IF PayloadRaises.raised # "none" THEN StepRaises(PayloadRaises, <<>>, NoResponse)
       ELSE \E x \in DecisionExchanges :
            LET http == get_action_requests
                r == post(x)
                a == model_validate(r.value)
            IN  IF r.raised # "none" THEN StepRaises(r, http, NoResponse)
                ELSE IF a.raised # "none"
                THEN StepRaises(a, http, [NoResponse EXCEPT !.action_type =
                         IF isinstance_dict(r.value) /\ "action_type" \in DOMAIN r.value.items
                         THEN r.value.items["action_type"].text ELSE ""])
                ELSE IF a.value.action_type \in {"call_function", "continue_function"}
                THEN CallFunctionBranch(a.value, http)
                ELSE IF a.value.action_type = "wait" THEN WaitBranch(a.value, http)
                ELSE IF a.value.action_type = "go_to" THEN GoToBranch(a.value, http)
                ELSE UnknownBranch(a.value, http)

\* a run that keeps the session it finds
Run_keeps_session ==
    /\ Constructed
    /\ ~running
    /\ session.id < MaxSessions
    /\ running' = TRUE
    /\ last' = Call("run", None, Return(None), <<>>)
    /\ UNCHANGED <<_api_key, agent_id, workers, current_worker_id, map_id, worker_states,
                   agent_state, session>>

\* Agent.run: the session is replaced by a fresh one, then step() is repeated
\* (the Step action, while running) until one raises
Run ==
    /\ Constructed
    /\ ~running
    /\ session.id < MaxSessions
    /\ session' = Session(session.id + 1)
    /\ running' = TRUE
    /\ last' = Call("run", None, Return(None), <<>>)
    /\ UNCHANGED <<_api_key, agent_id, workers, current_worker_id, map_id, worker_states, agent_state>>

Next == AgentInit \/ PostCall \/ CreateAgentCall \/ Compile \/ Reset \/ AddWorker \/ Step \/ Run

Spec == Init /\ [][Next]_vars

----------------------------------------------------------------------------
(* Properties *)

CallTypes == {"call_function", "continue_function"}

\* the step just taken received a decision response of one of these action types
StepOfType(types) == last'.op = "step" /\ last'.args.action_type \in types

\* the call ran the user's agent state callback and that callback raised
AgentCallbackRaised(call) == call.raised = "CallbackError" /\ call.msg = "agent state callback"

\* C1: a step() whose decision response carries an action type other than
\* CALL_FUNCTION, CONTINUE_FUNCTION, WAIT or GO_TO raises, and leaves every
\* worker state snapshot and the agent-level state as they were before the call.
C1_UnknownTypeRaisesNoMutation ==
    [][(last'.op = "step" /\ last'.args.action_type \notin HandledActionTypes \cup {""})
        => /\ last'.raised # "none"
           /\ worker_states' = worker_states
           /\ agent_state' = agent_state]_vars

C1_Witness ==
    /\ last.op = "step"
    /\ last.args.action_type = "extra_member"
    /\ last.raised = "ValueError"
    /\ last.http # <<>>

\* C2: a GO_TO step with location_id = w sets the active worker id to w,
\* whether or not w is a key of the worker mapping, and raises nothing itself
\* (only a raising agent state callback can end it); a step() taken while the
\* active worker id is no key of the worker mapping raises before any request.
C2_GoToSwitchesUnvalidated ==
    [][/\ (StepOfType({"go_to"}) /\ GoToArgsRaises(last'.args.action_args).raised = "none")
            => /\ current_worker_id' = last'.args.action_args.items["location_id"].text
               /\ (last'.raised = "none" \/ AgentCallbackRaised(last'))
       /\ (last'.op = "step" /\ current_worker_id \notin Keys(workers))
            => /\ last'.raised \in {"KeyError", "AttributeError"}
               /\ last'.http = <<>>
               /\ UNCHANGED <<current_worker_id, worker_states, agent_state, session>>]_vars

\* reached: a GO_TO to an id outside the mapping completed, and the step
\* after it failed on the lookup without sending a request
C2_Witness ==
    /\ last.op = "step"
    /\ last.raised = "KeyError"
    /\ last.http = <<>>
    /\ current_worker_id = GhostId
    /\ GhostId \notin Keys(workers)
    /\ worker_states.assigned

\* C3: once compile() has succeeded, the active worker id is a key of the
\* worker mapping in every state step(), reset() and add_worker() can reach.
C3_ActiveWorkerIsKey ==
    worker_states.assigned => current_worker_id \in Keys(workers)

\* C4: after construction, the agent-level state and every worker state
\* snapshot is a mapping, whatever the callbacks return later.
C4_StatesAreMappings ==
    Constructed =>
        /\ isinstance_dict(agent_state)
        /\ \A w \in DOMAIN worker_states.d : isinstance_dict(worker_states.d[w])

\* the step just taken executed a function and stored its result
FunctionExecuted ==
    /\ StepOfType(CallTypes)
    /\ last'.args.raw # None
    /\ session'.function_result # None
    /\ session'.function_result.action_id = Get(last'.args.action_args, "fn_id", None).text

\* C5: when a pending FunctionResult is stored, the current_action of the
\* next decision request carries its action id, status and feedback and no
\* info field, and the stored result (info included) stays the same until a
\* function execution or a reset (reset(), or the fresh session of run())
\* replaces it.
C5_InfoStrippedButRetained ==
    [][session.function_result # None =>
        /\ (last'.op = "step" /\ last'.http # <<>>) =>
              /\ last'.http[1].data.current_action =
                    [action_id |-> session.function_result.action_id,
                     action_status |-> session.function_result.action_status,
                     feedback_message |-> session.function_result.feedback_message]
              /\ "info" \notin DOMAIN last'.http[1].data.current_action
        /\ session'.function_result # session.function_result =>
              (last'.op \in {"reset", "run"} \/ FunctionExecuted)]_vars

\* reached: a request that carried a stored result with non-empty info, sent
\* by a step that executed no function, the stored result still holding it
C5_Witness ==
    /\ last.op = "step"
    /\ last.args.action_type = "wait"
    /\ last.raised = "none"
    /\ session.function_result # None
    /\ session.function_result.info = Dict("k" :> Str("v"))
    /\ last.http[1].data.current_action.action_id = session.function_result.action_id
    /\ "info" \notin DOMAIN last.http[1].data.current_action

\* the service answers the registration request with an id, and no state
\* callback of this compile() failed
CompileCanSucceed(call) ==
    /\ call.op = "compile"
    /\ call.args.x = AnswerData(200, Dict("id" :> Str("id_1")))
    /\ call.raised \notin {"CallbackError", "TypeError", "ValidationError"}

\* C6: a compile() over N >= 1 workers with distinct ids (empty or non-empty
\* action spaces) that the service answers with an id sets the active worker
\* id to the first-inserted worker's id and leaves exactly one snapshot per
\* worker id.
C6_CompileActivatesFirstWorker ==
    [][(CompileCanSucceed(last') /\ workers # <<>>)
        => /\ current_worker_id' = workers[1].id
           /\ worker_states'.assigned
           /\ DOMAIN worker_states'.d = Keys(workers)
           /\ Cardinality(DOMAIN worker_states'.d) = Len(workers)]_vars

\* the snapshot has an instructions field with this value
HasInstruction(snapshot, instruction) ==
    /\ "instructions" \in DOMAIN snapshot.items
    /\ snapshot.items["instructions"] = Str(instruction)

\* C7 (as stated): every worker state snapshot has an instructions field equal
\* to that worker's configured instruction, whatever mapping the raw callback
\* returned, one with an instructions key of its own included.
C7_SnapshotInstructionIsConfigured ==
    \A w \in DOMAIN worker_states.d :
        HasInstruction(worker_states.d[w], Lookup(workers, w).instruction)

\* the snapshot is the raw mapping with the instruction merged under it
MergedUnder(snapshot, worker, raw) ==
    /\ isinstance_dict(snapshot)
    /\ "instructions" \in DOMAIN snapshot.items
    /\ snapshot.items["instructions"] =
          IF "instructions" \in DOMAIN raw.value.items
          THEN raw.value.items["instructions"]
          ELSE Str(worker.instruction)
    /\ \A k \in DOMAIN raw.value.items : snapshot.items[k] = raw.value.items[k]

\* the last call was a step that stored a snapshot made by the wrapped callback
SnapshotProducedByStep ==
    /\ last.op = "step"
    /\ last.args.raw # None
    /\ last.args.raw.raised = "none"
    /\ isinstance_dict(last.args.raw.value)

\* C7 (amended): a snapshot produced by the wrapped callback always has an
\* instructions field; it equals the worker's configured instruction when the
\* raw mapping has no instructions key, and is the raw mapping's own value
\* when it has one.
C7_InstructionMergedUnderRaw ==
    /\ SnapshotProducedByStep =>
          MergedUnder(worker_states.d[current_worker_id],
                      Lookup(workers, current_worker_id), last.args.raw)
    /\ (last.op = "compile" /\ last.raised = "none") =>
          \A w \in Keys(workers) :
              MergedUnder(worker_states.d[w], Lookup(workers, w), last.args.raws[w])

\* reached: a step stored a snapshot whose instructions value is the raw
\* callback's, not the configured one
C7_Witness ==
    /\ SnapshotProducedByStep
    /\ "instructions" \in DOMAIN last.args.raw.value.items
    /\ worker_states.d[current_worker_id].items["instructions"] = Str("raw")
    /\ Lookup(workers, current_worker_id).instruction # "raw"

\* C8: Agent() whose agent-level state callback returns a non-mapping on its
\* first invocation raises a ValidationError before any HTTP request is
\* issued, and no agent exists afterwards.
C8_BadAgentStateRejectedBeforeHttp ==
    (/\ last.op = "__init__"
     /\ last.args.api_key # ""
     /\ last.args.st.raised = "none"
     /\ ~isinstance_dict(last.args.st.value))
        => /\ last.raised = "ValidationError"
           /\ last.http = <<>>
           /\ ~Constructed

C8_Witness ==
    /\ last.op = "__init__"
    /\ last.args.api_key # ""
    /\ last.args.name = NameStr(<<"T">>)
    /\ last.args.st = Return(Str("Not a dictionary"))
    /\ last.raised = "ValidationError"

\* the first worker, in compile()'s order, whose raw callback does not hand
\* back a mapping (0 if every one does)
FirstNonMapping(ws, raws) ==
    LET bad == {i \in 1..Len(ws) : raws[ws[i].id].raised # "none"
                                   \/ ~isinstance_dict(raws[ws[i].id].value)}
    IN  IF bad = {} THEN 0 ELSE CHOOSE i \in bad : \A j \in bad : i <= j

\* C9: compile() with a worker whose raw state callback returns a non-mapping
\* on its first invocation raises a ValidationError naming that worker id.
C9_BadWorkerStateIsValidationError ==
    (/\ last.op = "compile"
     /\ last.args.raws # None
     /\ FirstNonMapping(workers, last.args.raws) # 0
     /\ last.args.raws[workers[FirstNonMapping(workers, last.args.raws)].id].raised = "none")
        => /\ last.raised = "ValidationError"
           /\ last.msg = "Worker " \o workers[FirstNonMapping(workers, last.args.raws)].id
                         \o " state function must return a dictionary"

\* C10: compile() on an agent with no workers raises without issuing an HTTP
\* request and without changing the map id, the active worker id or the
\* worker state snapshots.
C10_EmptyCompileRaisesBeforeHttp ==
    [][(last'.op = "compile" /\ workers = <<>>)
        => /\ last'.raised = "ValueError"
           /\ last'.http = <<>>
           /\ UNCHANGED <<map_id, current_worker_id, worker_states>>]_vars

C10_Witness ==
    /\ last.op = "compile"
    /\ workers = <<>>
    /\ last.raised = "ValueError"
    /\ last.http = <<>>

----------------------------------------------------------------------------
(* Properties of the registration and transport operations *)

\* the exchange of a direct call of post was answered (no transport failure)
PostAnswered == last.op = "post" /\ last.args.x.fail = "none"

\* the service answers {data: {id}} with a non-empty id
AnswersId(x) ==
    /\ x.fail = "none" /\ x.status = 200 /\ x.text = "json"
    /\ isinstance_dict(x.json) /\ "data" \in DOMAIN x.json.items
    /\ isinstance_dict(x.json.items["data"])
    /\ Truthy(Get(x.json.items["data"], "id", None))

\* the call issued exactly one POST to the agent endpoint and returned the
\* id of the answer unchanged
CreatedWithOnePost(call) ==
    /\ call.raised = "none"
    /\ Len(call.http) = 1
    /\ call.http[1].endpoint = "/v2/agents"
    /\ call.value = call.args.x.json.items["data"].items["id"]

\* C11 (as stated): for every non-empty name string, names made only of
\* whitespace included, and a service that answers {data: {id}} with a
\* non-empty id, create_agent issues exactly one POST to the agent endpoint
\* and returns that id unchanged.
C11_EveryNonEmptyNameCreates ==
    (/\ last.op = "create_agent"
     /\ last.args.name.isstr
     /\ last.args.name.chars # <<>>
     /\ AnswersId(last.args.x))
        => CreatedWithOnePost(last)

\* C11 (amended): the same for every name that has a character other than
\* whitespace; a name made only of whitespace is rejected with a
\* ValidationError and no request.
C11_NonBlankNameCreates ==
    (/\ last.op = "create_agent"
     /\ last.args.name.isstr
     /\ last.args.name.chars # <<>>
     /\ AnswersId(last.args.x))
        => IF \E i \in 1..Len(last.args.name.chars) : last.args.name.chars[i] # " "
           THEN CreatedWithOnePost(last)
           ELSE last.raised = "ValidationError" /\ last.http = <<>>

\* reached: a name with trailing whitespace was registered with one POST that
\* carries the name as given, and the id came back
C11_Witness ==
    /\ last.op = "create_agent"
    /\ last.args.name = NameStr(<<"T", " ">>)
    /\ last.raised = "none"
    /\ last.value = Str("id_1")
    /\ Len(last.http) = 1
    /\ last.http[1].data.name = NameStr(<<"T", " ">>)

\* C12: create_agent with an empty name, or with a name that is no string,
\* raises a ValidationError without issuing an HTTP request; so does the Agent
\* constructor when it is handed the empty name.
C12_EmptyNameRejectedBeforeHttp ==
    /\ (last.op = "create_agent" /\ (~last.args.name.isstr \/ last.args.name.chars = <<>>))
          => last.raised = "ValidationError" /\ Len(last.http) = 0
    /\ (/\ last.op = "__init__"
        /\ last.args.api_key # ""
        /\ last.args.st.raised = "none"
        /\ isinstance_dict(last.args.st.value)
        /\ last.args.name = NameStr(<<>>))
          => last.raised = "ValidationError" /\ Len(last.http) = 0 /\ ~Constructed

\* reached: the constructor rejected the empty name although the service
\* would have answered with an id
C12_Witness ==
    /\ last.op = "__init__"
    /\ last.args.name = NameStr(<<>>)
    /\ AnswersId(last.args.x)
    /\ last.raised = "ValidationError"
    /\ last.msg = "Name cannot be empty"
    /\ last.http = <<>>

\* C13: the constructor raises an AuthenticationError (an APIError) when the
\* token endpoint answers 401 while the agent endpoint would answer 200, and
\* when the agent endpoint itself answers 401.
C13_UnauthorizedRaisesAuthenticationError ==
    (/\ last.op = "__init__"
     /\ last.args.api_key # ""
     /\ last.args.st.raised = "none"
     /\ isinstance_dict(last.args.st.value)
     /\ last.args.name = NameStr(<<"T">>)
     /\ \/ last.args.x.status = 401
        \/ (last.args.token.status = 401 /\ AnswersId(last.args.x)))
        => last.raised = "AuthenticationError" /\ IsAPIError(last.raised)

TokenEndpoint == "/api/accesses/tokens"
AccessTokens ==
    {t.json.items["data"].items["accessToken"].text : t \in {u \in TokenExchanges : u.status = 200}}

\* C14: every request to a main endpoint comes after a token-exchange request
\* to /api/accesses/tokens, and its Authorization bearer value is an access
\* token of that exchange, never the raw API key.
C14_BearerIsExchangedToken ==
    \A i \in 1..Len(last.http) :
        last.http[i].endpoint # TokenEndpoint =>
            /\ last.http[i].headers.Authorization \in {"Bearer " \o t : t \in AccessTokens}
            /\ last.http[i].headers.Authorization \notin {"Bearer " \o k : k \in ApiKeys}

\* C15: a call of post answered with status 429 raises an APIError whose status
\* code is 429, one answered with a status s >= 500 raises an APIError whose
\* status code is s, whatever the body; the failure is of no other kind.
C15_RateLimitAndServerErrorsTagged ==
    (PostAnswered /\ (last.args.x.status = 429 \/ last.args.x.status >= 500))
        => /\ last.raised = "APIError"
           /\ last.status_code = PyInt(last.args.x.status)

\* reached: a 503 whose body is no JSON was raised as an APIError tagged 503
C15_Witness ==
    /\ PostAnswered
    /\ last.args.x.status = 503
    /\ last.args.x.text = "not json"
    /\ last.raised = "APIError"
    /\ last.status_code = PyInt(503)

\* the words a message text contains, compared case-insensitively, among the
\* words the claims ask for
WordsIn(text) ==
    CASE text = "Connection failed: " -> {"connection"}
      [] text = "Connection timeout: " -> {"connection", "timeout"}
      [] text = "Invalid JSON response" -> {"invalid json"}
      [] text = "Connection failed" -> {"connection"}
      [] text = "Remote end closed connection without response" -> {"connection"}
      [] text = "Connection timeout" -> {"connection", "timeout"}
      [] text = "Max retries exceeded (Caused by ConnectTimeoutError)" -> {"timeout"}
      [] OTHER -> {}

\* word in message.lower(), for a message that is one literal or a literal
\* prefix followed by str(e)
Mentions(message, word) ==
    \/ word \in WordsIn(message)
    \/ \E prefix \in {"Connection failed: ", "Connection timeout: ", "Request failed: "},
          detail \in {f.detail : f \in Failures} \cup {JSONDecodeErrorText} :
            /\ message = prefix \o detail
            /\ word \in WordsIn(prefix) \cup WordsIn(detail)

\* C16: a call of post answered with status 200 and a non-empty body that is
\* no JSON raises an APIError whose message contains "invalid json".
C16_NonJsonIsInvalidJson ==
    (PostAnswered /\ last.args.x.status = 200 /\ last.args.x.text = "not json")
        => /\ last.raised = "APIError"
           /\ Mentions(last.msg, "invalid json")

RequestsExceptions ==
    {"ConnectionError", "Timeout", "ConnectTimeout", "RequestException", "JSONDecodeError"}

\* C17: a call of post whose exchange fails with a connection failure raises
\* an APIError whose message names "connection", one that fails with a timeout
\* raises an APIError whose message names "timeout", and no exception of the
\* requests library leaves post.
C17_TransportFailuresWrapped ==
    last.op = "post" =>
        /\ last.raised \notin RequestsExceptions
        /\ last.args.x.fail # "none" => last.raised = "APIError"
        /\ last.args.x.fail = "ConnectionError" => Mentions(last.msg, "connection")
        /\ last.args.x.fail \in {"Timeout", "ConnectTimeout"} => Mentions(last.msg, "timeout")

\* reached: a read timeout came out as an APIError naming the timeout
C17_Witness ==
    /\ last.op = "post"
    /\ last.args.x = Failure("Timeout", "Read timed out.")
    /\ last.raised = "APIError"
    /\ last.msg = "Connection timeout: Read timed out."

\* the message a 400 body asks for: its error.message, "Invalid request" when
\* there is none
RequestedMessage(x) ==
    IF /\ x.text = "json" /\ isinstance_dict(x.json)
       /\ "error" \in DOMAIN x.json.items
       /\ isinstance_dict(x.json.items["error"])
       /\ "message" \in DOMAIN x.json.items["error"].items
    THEN x.json.items["error"].items["message"].text
    ELSE "Invalid request"

\* C18: a call of post answered with status 400 raises a ValidationError for
\* every body (a JSON object with or without an error key, the error an
\* object or a bare string, or a body that is no JSON), its message the
\* body's error.message when there is one and "Invalid request" otherwise.
C18_BadRequestIsValidationError ==
    (/\ PostAnswered
     /\ last.args.x.status = 400
     /\ last.args.x.text = "not json" \/ (last.args.x.text = "json" /\ isinstance_dict(last.args.x.json)))
        => /\ last.raised = "ValidationError"
           /\ last.msg = RequestedMessage(last.args.x)

\* C19: a call of post answered with a status other than 200 and 204 that is
\* none of 400, 401, 429 and >= 500 raises an APIError and returns no payload.
C19_OtherStatusIsAPIError ==
    (PostAnswered /\ last.args.x.status \notin {200, 204, 400, 401, 429}
                  /\ last.args.x.status < 500)
        => last.raised = "APIError"

\* C20: a call of post answered with 200 or 204 returns the value under the
\* data key of a JSON object body, and the empty mapping, without a failure,
\* when the status is 204, the body is empty or the object has no data key.
C20_SuccessReturnsData ==
    (PostAnswered /\ last.args.x.status \in {200, 204}) =>
        /\ (last.args.x.text = "json" /\ isinstance_dict(last.args.x.json)
                /\ "data" \in DOMAIN last.args.x.json.items)
              => last.raised = "none" /\ last.value = last.args.x.json.items["data"]
        /\ (\/ last.args.x.status = 204
            \/ last.args.x.text = ""
            \/ (last.args.x.text = "json" /\ isinstance_dict(last.args.x.json)
                    /\ "data" \notin DOMAIN last.args.x.json.items))
              => last.raised = "none" /\ last.value = Dict(EmptyItems)

\* reached: a 200 answer without a data key came back as the empty mapping
C20_Witness ==
    /\ PostAnswered
    /\ last.args.x = Answer(200, Dict("error" :> Dict(EmptyItems)))
    /\ last.raised = "none"
    /\ last.value = Dict(EmptyItems)

----------------------------------------------------------------------------
(* Properties of the transport contract, of reset(), run() and step() *)

SDKTaxonomy == {"ValidationError", "AuthenticationError", "APIError"}

\* C21: whatever the HTTP exchange does (any status, any body, any transport
\* failure), a call of post either returns a mapping or raises a
\* ValidationError, an AuthenticationError or an APIError.
C21_PostReturnsMappingOrSDKFailure ==
    last.op = "post" =>
        IF last.raised = "none" THEN isinstance_dict(last.value)
        ELSE last.raised \in SDKTaxonomy

\* the unwrapped response of a call whose request was answered and unwrapped
Unwrapped(call) == post(call.args.x)
RequestUnwrapped(call) ==
    /\ call.op \in {"create_agent", "__init__", "compile"}
    /\ Len(call.http) = 1
    /\ Unwrapped(call).raised = "none"

\* a response without an id field
HasNoId(resp) == ~isinstance_dict(resp) \/ "id" \notin DOMAIN resp.items

MissingIdMessages ==
    {"Failed to create agent: missing id in response",
     "Failed to create worker: missing id in response"}

\* C22: create_agent and create_workers (called directly, by the constructor
\* or by compile()) raise an APIError "missing id in response" whenever the
\* unwrapped response has no id field, they never return an absent or empty
\* identifier, and the failed call leaves the agent id and the map id as
\* they were.
C22_MissingIdIsAPIError ==
    [][RequestUnwrapped(last') =>
        /\ HasNoId(Unwrapped(last').value) =>
              /\ last'.raised = "APIError"
              /\ last'.msg \in MissingIdMessages
              /\ UNCHANGED <<agent_id, map_id>>
        /\ (last'.op = "create_agent" /\ last'.raised = "none") =>
              (last'.value.kind = "str" /\ last'.value.text # "")
        /\ (last'.op = "__init__" /\ last'.raised = "none") =>
              agent_id' \notin {"", NoneId, Unset}
        /\ (last'.op = "compile" /\ last'.raised = "none") =>
              map_id' \notin {"", NoneId, Unset}]_vars

\* C23: no operation sends a request twice: a step() issues exactly one
\* request to the decision endpoint when its payload can be built and none
\* otherwise, whether the request fails or not, and every other operation
\* issues at most one request.
C23_NoRetries ==
    [][/\ last'.op = "step" =>
            /\ Len(last'.http) = (IF PayloadRaises.raised = "none" THEN 1 ELSE 0)
            /\ \A i \in 1..Len(last'.http) :
                  last'.http[i].endpoint = "/v2/agents/" \o agent_id \o "/actions"
       /\ Len(last'.http) <= 1]_vars

\* reached: the decision request of a step failed with status 500 and the
\* step ended with that failure after this one request
C23_Witness ==
    /\ last.op = "step"
    /\ last.raised = "APIError"
    /\ last.status_code = PyInt(500)
    /\ Len(last.http) = 1

\* C24: reset() gives the session an identifier it never had before
\* (identifiers only grow, and reset() takes a larger one), sets the pending
\* function result to none, and leaves the active worker id, the worker state
\* snapshots, the agent-level state, the agent id and the map id unchanged.
C24_ResetFreshIdKeepsRest ==
    [][/\ session'.id >= session.id
       /\ last'.op = "reset" =>
            /\ session'.id > session.id
            /\ session'.function_result = None
            /\ UNCHANGED <<current_worker_id, worker_states, agent_state, agent_id, map_id>>]_vars

\* reached: a reset() of a compiled agent whose session had been replaced before
C24_Witness ==
    /\ last.op = "reset"
    /\ session = Session(2)
    /\ worker_states.assigned
    /\ map_id # Unset

\* the placeholder result as a decision request carries it
Placeholder == [action_id |-> "", action_status |-> "DONE", feedback_message |-> ""]

\* C25: run() replaces the session by a fresh one with no pending result, so
\* the first decision request of the run carries the placeholder; while the
\* run lasts only step() happens, and the run ends exactly when a step raises.
C25_RunResetsThenStepsUntilRaise ==
    [][/\ last'.op = "run" =>
            /\ session'.id > session.id
            /\ session'.function_result = None
            /\ running'
       /\ (last.op = "run" /\ last'.op = "step" /\ last'.http # <<>>) =>
            last'.http[1].data.current_action = Placeholder
       /\ running => last'.op = "step"
       /\ running => (running' <=> last'.raised = "none")]_vars

\* reached: a run in progress whose step was asked with the placeholder and
\* executed a function
C25_Witness ==
    /\ running
    /\ last.op = "step"
    /\ last.raised = "none"
    /\ last.http[1].data.current_action = Placeholder
    /\ session.function_result # None

\* C26: a CALL_FUNCTION or CONTINUE_FUNCTION step whose action args name a
\* function of the active worker's action space executes that function,
\* stores its result as the pending result, then invokes the worker's state
\* callback with (the new result, the previous snapshot) and replaces the
\* active worker's snapshot by the wrapped callback's value.
C26_CallExecutesStoresThenSnapshots ==
    [][(/\ StepOfType(CallTypes)
        /\ CallArgsRaises(last'.args.action_args).raised = "none"
        /\ last'.args.action_args.items["fn_name"].text
              \in Lookup(workers, current_worker_id).action_space) =>
        LET worker == Lookup(workers, current_worker_id)
            raw == last'.args.raw
        IN  /\ raw # None
            /\ session'.function_result
                  \in {execute(last'.args.action_args, e) : e \in ExecOutcomes}
            /\ raw.args = <<session'.function_result, worker_states.d[current_worker_id]>>
            /\ current_worker_id' = current_worker_id
            /\ get_state_fn(worker, raw).raised = "none" =>
                  worker_states' = [worker_states EXCEPT
                                      !.d[current_worker_id] = get_state_fn(worker, raw).value]]_vars

\* reached: a CONTINUE_FUNCTION step stored a failed execution and its
\* callback was handed that result together with a snapshot it then replaced
C26_Witness ==
    /\ last.op = "step"
    /\ last.args.action_type = "continue_function"
    /\ last.raised = "none"
    /\ session.function_result # None
    /\ session.function_result.action_status = "ERROR"
    /\ last.args.raw.args[1] = session.function_result
    /\ last.args.raw.args[2] # worker_states.d[current_worker_id]

\* C27: every step() that returns was of a handled action type and ended by
\* invoking the agent state callback, once, with (the pending result as the
\* branch left it, the agent-level state before the step), and by replacing
\* the agent-level state with what the callback returned.
C27_AgentStateRecomputedAfterBranch ==
    [][(last'.op = "step" /\ last'.raised = "none") =>
        /\ last'.args.action_type \in HandledActionTypes
        /\ last'.args.st # None
        /\ last'.args.st.raised = "none"
        /\ last'.args.st.args = <<session'.function_result, agent_state>>
        /\ agent_state' = last'.args.st.value]_vars

\* reached: a CALL_FUNCTION step whose agent state callback was handed the
\* result the step had just stored, and changed the agent-level state
C27_Witness ==
    /\ last.op = "step"
    /\ last.args.action_type = "call_function"
    /\ last.raised = "none"
    /\ session.function_result # None
    /\ last.args.st.args[1] = session.function_result
    /\ last.args.st.args[2] # agent_state

\* C28 (as stated): a step() with action type WAIT changes no state: the
\* session, the active worker id, every snapshot and the agent-level state
\* are what they were before the step.
C28_WaitChangesNothing ==
    [][StepOfType({"wait"}) =>
        UNCHANGED <<session, current_worker_id, worker_states, agent_state>>]_vars

\* C28 (amended): a step() with action type WAIT leaves the session, the
\* active worker id and every snapshot unchanged; the agent-level state is
\* replaced by what the agent state callback returns, and kept when the
\* callback raises.
C28_WaitChangesOnlyAgentState ==
    [][StepOfType({"wait"}) =>
        /\ UNCHANGED <<session, current_worker_id, worker_states>>
        /\ last'.args.st # None
        /\ agent_state' = (IF last'.raised = "none" THEN last'.args.st.value ELSE agent_state)]_vars

\* reached: a WAIT step after which the agent-level state is another mapping
\* than before, the one its callback returned
C28_Witness ==
    /\ last.op = "step"
    /\ last.args.action_type = "wait"
    /\ last.raised = "none"
    /\ last.args.st.args[2] = Dict("status" :> Str("ready"))
    /\ agent_state = Dict("status" :> Str("busy"))
    /\ agent_state = last.args.st.value

\* C29: a step() whose response has action type CALL_FUNCTION,
\* CONTINUE_FUNCTION or GO_TO and absent or empty action args raises the
\* ValueError "No function/location information provided by GAME", executes
\* no function and changes neither the session, the active worker id, the
\* snapshots nor the agent-level state.
C29_MissingArgsRaiseValueError ==
    [][(StepOfType(CallTypes \cup {"go_to"}) /\ last'.args.action_args \in BadActionArgs) =>
        /\ last'.raised = "ValueError"
        /\ last'.msg \in {"No function information provided by GAME",
                         "No location information provided by GAME"}
        /\ last'.args.raw = None
        /\ UNCHANGED <<session, current_worker_id, worker_states, agent_state>>]_vars

\* C30: a decision request sent while the session has no pending result
\* carries the placeholder (empty action id, DONE, empty feedback) as
\* current_action; every decision request carries a record of exactly these
\* three fields, never null; and the placeholder is not stored: a session
\* without a pending result has none after the step unless the step executed
\* a function.
C30_PlaceholderWhenNoPendingResult ==
    [][(last'.op = "step" /\ last'.http # <<>>) =>
        LET current == last'.http[1].data.current_action
        IN  /\ session.function_result = None => current = Placeholder
            /\ DOMAIN current = {"action_id", "action_status", "feedback_message"}
            /\ (session.function_result = None /\ ~FunctionExecuted) =>
                  session'.function_result = None
            /\ session'.function_result # DummyResult]_vars

\* reached: after a reset() a WAIT step was asked with the placeholder, and
\* the session still has no pending result
C30_Witness ==
    /\ last.op = "step"
    /\ last.args.action_type = "wait"
    /\ last.raised = "none"
    /\ last.http[1].data.current_action = Placeholder
    /\ session.id = 2
    /\ session.function_result = None

----------------------------------------------------------------------------
(* Properties of the request, of failures inside step() and of the frame *)

\* C31: the request of a step() carries the active worker id as location,
\* that worker's snapshot as environment and the function names of the
\* action space the step dispatches into; a well-formed call executes (its
\* function resolves) exactly when its fn_name is among the advertised names.
C31_RequestMatchesDispatch ==
    [][(last'.op = "step" /\ last'.http # <<>>) =>
        LET req == last'.http[1].data
            worker == Lookup(workers, current_worker_id)
            args == last'.args.action_args
        IN  /\ req.location = current_worker_id
            /\ req.environment = worker_states.d[current_worker_id]
            /\ req.functions = worker.action_space
            /\ (StepOfType(CallTypes) /\ CallArgsRaises(args).raised = "none") =>
                  (last'.args.raw # None <=> args.items["fn_name"].text \in req.functions)]_vars

\* reached: a call proposed for the function advertised for the second
\* worker, which is active, was executed, the first worker having none
C31_Witness ==
    /\ last.op = "step"
    /\ last.args.action_type = "call_function"
    /\ last.raised = "none"
    /\ Len(workers) = 2
    /\ workers[1].action_space = {}
    /\ current_worker_id = workers[2].id
    /\ last.http[1].data.location = workers[2].id
    /\ last.http[1].data.functions = {"fn_1"}
    /\ last.args.raw # None

\* C32: a compile() of an agent with workers, whether their action spaces
\* are empty or not, posts exactly one request whose workers list has for
\* each worker its id, description, instruction and one function definition
\* per entry of its action space.
C32_CreateWorkersPostsFunctionDefs ==
    (last.op = "compile" /\ workers # <<>>) =>
        /\ Len(last.http) = 1
        /\ last.http[1].endpoint = "/v2/workers"
        /\ Len(last.http[1].data.workers) = Len(workers)
        /\ \A i \in 1..Len(workers) :
              LET sent == last.http[1].data.workers[i]
              IN  /\ sent.id = workers[i].id
                  /\ sent.description = workers[i].worker_description
                  /\ sent.instruction = workers[i].instruction
                  /\ Len(sent.action_space) = Cardinality(workers[i].action_space)

\* the decision request of the step was sent and failed in the transport
\* layer, or its response could not be parsed
DecisionFailed(call) ==
    /\ call.op = "step"
    /\ Len(call.http) = 1
    /\ call.raised \in SDKTaxonomy \cup {"PydanticValidationError"}

\* C33: a step() whose decision request fails with a failure of the SDK
\* taxonomy, or whose response cannot be parsed, raises without invoking a
\* function or a state callback and changes no state, so a step() that
\* follows it sends the same request.
C33_FailedDecisionChangesNothing ==
    [][/\ DecisionFailed(last') =>
            /\ last'.args.raw = None
            /\ last'.args.st = None
            /\ UNCHANGED <<session, current_worker_id, worker_states, agent_state,
                           workers, map_id, agent_id>>
       /\ (DecisionFailed(last) /\ last'.op = "step") => last'.http = last.http]_vars

\* reached: a decision request answered 401 ended the step with an
\* AuthenticationError, the pending result of an earlier step still stored
C33_Witness ==
    /\ last.op = "step"
    /\ last.raised = "AuthenticationError"
    /\ Len(last.http) = 1
    /\ session.function_result # None
    /\ last.http[1].data.current_action.action_id = session.function_result.action_id

\* C34: when the active worker's state callback raises in a call step, the
\* session already holds the new result while the snapshots and the
\* agent-level state are the old ones; when the agent state callback raises
\* in a GO_TO step, the active worker id is already the new one while the
\* agent-level state is the old one.
C34_CallbackFailureIsPartial ==
    [][/\ (/\ StepOfType(CallTypes)
           /\ last'.args.raw # None
           /\ get_state_fn(Lookup(workers, current_worker_id), last'.args.raw).raised # "none") =>
            /\ last'.raised =
                  get_state_fn(Lookup(workers, current_worker_id), last'.args.raw).raised
            /\ session'.function_result
                  \in {execute(last'.args.action_args, e) : e \in ExecOutcomes}
            /\ last'.args.st = None
            /\ UNCHANGED <<worker_states, agent_state, current_worker_id>>
       /\ (/\ StepOfType({"go_to"})
           /\ last'.args.st # None
           /\ last'.args.st.raised # "none") =>
            /\ last'.raised = last'.args.st.raised
            /\ current_worker_id' = last'.args.action_args.items["location_id"].text
            /\ UNCHANGED <<agent_state, worker_states, session>>]_vars

\* reached: a GO_TO step whose agent state callback raised, and the active
\* worker is the target, no longer the worker the request was sent for
C34_Witness ==
    /\ last.op = "step"
    /\ last.args.action_type = "go_to"
    /\ AgentCallbackRaised(last)
    /\ current_worker_id = "worker_b"
    /\ last.http[1].data.location = "worker_a"

\* C35: a call step whose fn_name is no key of the active worker's action
\* space raises, executes no function and leaves the session, the
\* snapshots, the active worker id and the agent-level state unchanged.
C35_UnknownFunctionChangesNothing ==
    [][(/\ StepOfType(CallTypes)
        /\ isinstance_dict(last'.args.action_args)
        /\ "fn_name" \in DOMAIN last'.args.action_args.items
        /\ last'.args.action_args.items["fn_name"].text
              \notin Lookup(workers, current_worker_id).action_space) =>
        /\ last'.raised # "none"
        /\ last'.args.raw = None
        /\ UNCHANGED <<session, worker_states, current_worker_id, agent_state>>]_vars

\* reached: a CONTINUE_FUNCTION step for a function the active worker does
\* not have raised a KeyError, the pending result of an earlier step kept
C35_Witness ==
    /\ last.op = "step"
    /\ last.args.action_type = "continue_function"
    /\ last.args.action_args = CallArgs("fn_missing")
    /\ last.raised = "KeyError"
    /\ last.msg = "action_space"
    /\ session.function_result # None

\* the agent is compiled and its active worker id has no snapshot
NoSnapshot == worker_states.assigned /\ current_worker_id \notin DOMAIN worker_states.d

\* C36: once the active worker id is an id without a snapshot (a GO_TO put it
\* there), every step() raises while it builds the request, sends nothing
\* and changes no state, and the agent leaves this condition only by a
\* compile().
C36_MissingSnapshotBlocksSteps ==
    [][NoSnapshot =>
        /\ last'.op = "step" =>
              /\ last'.raised = "KeyError"
              /\ last'.http = <<>>
              /\ UNCHANGED <<session, current_worker_id, worker_states, agent_state,
                             workers, map_id, agent_id>>
        /\ ~NoSnapshot' => last'.op = "compile"]_vars

\* reached: a step of an agent whose active worker is an id no worker has
\* raised before any request
C36_Witness ==
    /\ NoSnapshot
    /\ current_worker_id = GhostId
    /\ last.op = "step"
    /\ last.raised = "KeyError"
    /\ last.msg = "worker_states"
    /\ last.http = <<>>

\* C37: a call step changes no snapshot but the one of the worker that was
\* active when it began, and keeps the active worker id; a GO_TO step
\* changes no snapshot and leaves the session (id and pending result) alone.
C37_StepFrame ==
    [][/\ StepOfType(CallTypes) =>
            /\ current_worker_id' = current_worker_id
            /\ DOMAIN worker_states'.d = DOMAIN worker_states.d
            /\ \A w \in DOMAIN worker_states.d \ {current_worker_id} :
                  worker_states'.d[w] = worker_states.d[w]
       /\ StepOfType({"go_to"}) => UNCHANGED <<worker_states, session>>]_vars

\* reached: a call step replaced the snapshot of the active second worker
\* while the first worker's snapshot exists
C37_Witness ==
    /\ last.op = "step"
    /\ last.args.action_type = "call_function"
    /\ last.raised = "none"
    /\ current_worker_id = "worker_b"
    /\ DOMAIN worker_states.d = {"worker_a", "worker_b"}
    /\ last.args.raw.args[2] # worker_states.d["worker_b"]

\* C38: the pending result changes only when a call step executes a
\* function and by reset() or run(); a GO_TO or WAIT step keeps it and hands
\* it to the agent state callback once more, and the request of a step that
\* follows a GO_TO carries, as current_action, the result the GO_TO step held.
C38_PendingResultChangesOnlyByExecution ==
    [][/\ session'.function_result # session.function_result =>
            (FunctionExecuted \/ last'.op \in {"reset", "run"})
       /\ StepOfType({"go_to", "wait"}) =>
            /\ session' = session
            /\ last'.args.st # None => last'.args.st.args[1] = session.function_result
       /\ (/\ last.op = "step" /\ last.args.action_type = "go_to" /\ last.raised = "none"
           /\ last'.op = "step" /\ last'.http # <<>>) =>
            last'.http[1].data.current_action = current_action(last.args.st.args[1])]_vars

\* reached: a GO_TO step switched the worker, kept a result produced under
\* the worker it left and handed it to the agent state callback again
C38_Witness ==
    /\ last.op = "step"
    /\ last.args.action_type = "go_to"
    /\ last.raised = "none"
    /\ session.function_result # None
    /\ last.args.st.args[1] = session.function_result
    /\ current_worker_id # last.http[1].data.location

\* C39 (as stated): once a compile() has succeeded, the worker ids that have
\* a snapshot are exactly the keys of the worker mapping.
C39_SnapshotKeysEqualWorkerKeys ==
    worker_states.assigned => DOMAIN worker_states.d = Keys(workers)

\* C39 (amended): once a compile() has succeeded, every worker id that has a
\* snapshot is a key of the worker mapping; the two sets are equal after
\* each successful compile() and stay equal until add_worker() adds an id.
C39_SnapshotKeysAmongWorkerKeys ==
    [][/\ worker_states'.assigned => DOMAIN worker_states'.d \subseteq Keys(workers')
       /\ (last'.op = "compile" /\ last'.raised = "none") =>
            DOMAIN worker_states'.d = Keys(workers')
       /\ (/\ worker_states.assigned
           /\ DOMAIN worker_states.d = Keys(workers)
           /\ DOMAIN worker_states'.d # Keys(workers')) => last'.op = "add_worker"]_vars

\* reached: add_worker() after a compile() left a worker without a snapshot
C39_Witness ==
    /\ last.op = "add_worker"
    /\ worker_states.assigned
    /\ DOMAIN worker_states.d = {"worker_a"}
    /\ Keys(workers) = {"worker_a", "worker_b"}

\* the compile() registered the workers and then failed on a state callback
CompileFailedOnCallback(call) ==
    /\ call.op = "compile"
    /\ call.args.raws # None
    /\ FirstRaising(workers, call.args.raws) # 0

\* what a compile() that fails on a state callback has done by then: the
\* registration request is sent, the map id and the active worker id are
\* set, and no snapshot is assigned
RegisteredBeforeCallbacks ==
    CompileFailedOnCallback(last') =>
        /\ last'.raised # "none"
        /\ Len(last'.http) = 1
        /\ last'.http[1].endpoint = "/v2/workers"
        /\ map_id' = post(last'.args.x).value.items["id"].text
        /\ current_worker_id' = workers[1].id
        /\ UNCHANGED worker_states

\* C40 (as stated): compile() registers the workers before it invokes a
\* state callback, and after a compile() that failed on a state callback a
\* step() cannot build its request.
C40_FailedCompileBlocksStep ==
    [][/\ RegisteredBeforeCallbacks
       /\ (CompileFailedOnCallback(last) /\ last'.op = "step") =>
            (last'.http = <<>> /\ last'.raised # "none")]_vars

\* C40 (amended): compile() registers the workers before it invokes a state
\* callback; after a compile() that failed on a state callback a step()
\* cannot build its request if no earlier compile() had assigned snapshots,
\* and otherwise sends its request with the snapshots of that earlier compile.
C40_FailedCompileKeepsOldSnapshots ==
    [][/\ RegisteredBeforeCallbacks
       /\ (CompileFailedOnCallback(last) /\ last'.op = "step") =>
            IF worker_states.assigned
            THEN /\ Len(last'.http) = 1
                 /\ last'.http[1].data.map_id = map_id
                 /\ last'.http[1].data.environment = worker_states.d[current_worker_id]
            ELSE last'.http = <<>> /\ last'.raised = "AttributeError"]_vars

\* reached: a first compile() failed on a state callback after the
\* registration: the map id and the active worker are set, snapshots are not
C40_Witness ==
    /\ CompileFailedOnCallback(last)
    /\ last.raised = "CallbackError"
    /\ map_id = "id_1"
    /\ current_worker_id = workers[1].id
    /\ ~worker_states.assigned

====
